---- MODULE Spec2Model ----
(***************************************************************************)
(* Model of src/main.py: the open-interest sampling and detection loop.    *)
(*                                                                         *)
(* Symbols are modelled as natural numbers (the position of the contract   *)
(* in the exchange's listing).  Prices and open-interest values are exact  *)
(* integers; the percentage changes of main() are kept as fractions        *)
(* <<numerator, denominator>> and compared with the thresholds by exact    *)
(* rational arithmetic.  A Python dict is a function whose DOMAIN is the   *)
(* set of its keys; an optional value is a set with at most one element    *)
(* (None is the empty set).                                                *)
(***************************************************************************)
EXTENDS Integers, Sequences, FiniteSets, TLC

----------------------------------------------------------------------------
(* Program constants *)

\* asyncio.Semaphore(15)
SemaphoreValue == 15
\* CHECK_INTERVAL = 45
CHECK_INTERVAL == 45
\* await asyncio.sleep(10) in the except branch
ERROR_SLEEP == 10
\* OI_THRESHOLD = 5 (percent)
OI_THRESHOLD == 5
\* PRICE_THRESHOLD = 1.2 (percent), in tenths of a percent
PRICE_THRESHOLD_TENTHS == 12
\* the literal 0.3 of the direction test, in tenths of a percent
DIRECTION_TENTHS == 3
\* embeds[:10]
EMBEDS_SLICE == 10

----------------------------------------------------------------------------
(* Bounds of the model *)

\* symbols the exchange lists in the scheduler specification
MaxSymbols == 2
\* cycles the scheduler specification starts (the history log grows with each)
MaxCycles == 2
\* symbols handed to get_all_open_interest in the collector specification
MaxOISymbols == 16
\* symbols of the detection specification: with every value of the
\* boundaries, with the values that skip or raise, with two values only
MaxRichSymbols == 1
MaxMediumSymbols == 2
MaxWideSymbols == 11
\* symbols of the persistence specification
MaxPersistSymbols == 2

----------------------------------------------------------------------------
(* Optional values and dicts *)

None == {}
Some(v) == {v}
Val(o) == CHOOSE v \in o : TRUE

\* the empty dict
EmptyDict == [k \in {} |-> 0]

\* d.get(k): the value, or None when the key is missing (d maps keys to
\* optional values, as the dict built from fetch_open_interest's results)
Get(d, k) == IF k \in DOMAIN d THEN d[k] ELSE None

\* d.get(k, dflt) on a dict of plain values
GetOr(d, k, dflt) == IF k \in DOMAIN d THEN d[k] ELSE dflt

\* a test for None alone (`is not None`), which lets 0.0 through
Truthy_NotNone(o) == o # None

\* Python truthiness of an optional float: None and 0.0 are falsy
Truthy(o) == o # None /\ o # Some(0)

\* the elements of a sequence
Range(seq) == {seq[k] : k \in 1..Len(seq)}

\* the strictly increasing sequences over 1..n: the listings of the exchange
Prefix(n) == [k \in 1..n |-> k]

\* seq[:n]
Take(seq, n) == SubSeq(seq, 1, IF Len(seq) < n THEN Len(seq) ELSE n)

----------------------------------------------------------------------------
(* Exact arithmetic of the percentage changes *)

\* (curr - prev) / prev * 100 as the fraction <<numerator, denominator>>;
\* the caller has checked prev # 0 (a zero prev raises ZeroDivisionError)
PctChange(prev, curr) == <<(curr - prev) * 100, prev>>

\* f > a/b and f < a/b for a fraction f = <<n, d>>, d # 0, and b > 0
FracGT(f, a, b) == IF f[2] > 0 THEN f[1] * b > a * f[2] ELSE f[1] * b < a * f[2]
FracLT(f, a, b) == IF f[2] > 0 THEN f[1] * b < a * f[2] ELSE f[1] * b > a * f[2]

\* abs(f) < a/b
AbsFracLT(f, a, b) == FracLT(f, a, b) /\ FracGT(f, 0 - a, b)

----------------------------------------------------------------------------
(* Values the exchange answers with *)

\* what the scheduler specification lets the exchange answer: one price,
\* two open-interest values 6 % apart, one funding rate (in 1/10000)
PriceValues == {1000}
OIValues == {1000, 1060}
FundingValues == {1}

\* the values of the detection specification: 0, and every side of the
\* 0.3 %, 1.2 % and 5 % boundaries seen from a previous value of 1000
\* the prices and open-interest values of the persistence specification
PersistValues == {0, 1000}
DetectPrevValues == {0, 1000}
DetectPriceValues == {0, 988, 995, 997, 1000, 1003, 1005, 1011, 1012}
DetectOIValues == {0, 1000, 1050, 1051, 1060}

\* how one HTTP exchange can end
Outcomes == {"ok", "status", "exception"}

\* one entry of exchangeInfo's symbols: the four fields get_all_symbols tests
Listing == [status : {"TRADING", "BREAK"}, usdc : BOOLEAN,
            contractType : {"PERPETUAL", "CURRENT_QUARTER"}, dated : BOOLEAN]

VARIABLES
  pc,                   \* where main() is
  cycle,                \* cycles started so far (the clock of start_time)
  log,                  \* the last message given to the logger
  timer,                \* the seconds of the asyncio.sleep in progress, or 0
  DISCORD_WEBHOOK_URL,  \* what os.getenv returned at import
  symbols, prev_prices, prev_oi, funding_rates, curr_prices, curr_oi,
  embeds,               \* the list built by the detection loop
  idx,                  \* position of `for s in symbols` (1-based)
  semaphore,            \* free permits of the collector's semaphore
  tasks,                \* tasks[k]: state of fetch_open_interest(symbols[k])
  results,              \* what the finished tasks returned, by task
  oiAnswer,             \* what the exchange answers each symbol of the batch
  fileExists, fileColumns, fileRows,  \* DATA_FILE
  postCalls,            \* session.post calls of the current cycle
  payload,              \* json={"embeds": ...} of the last session.post
  fresh,                \* names assigned since the current iteration began
  funding_outcome,      \* how the premiumIndex request of the iteration ended
  symbols_outcome,      \* how the exchangeInfo request of the iteration ended
  postAnswer,           \* how the webhook answers the session.post in progress
  blocked               \* main() is inside a requests.get that never returns

vars == <<pc, cycle, log, timer, DISCORD_WEBHOOK_URL, symbols, prev_prices,
          prev_oi, funding_rates, curr_prices, curr_oi, embeds, idx,
          semaphore, tasks, results, oiAnswer, fileExists, fileColumns,
          fileRows, postCalls, payload, fresh, funding_outcome,
          symbols_outcome, postAnswer, blocked>>

schedVars == <<pc, cycle, log, timer>>
snapVars == <<symbols, prev_prices, prev_oi, funding_rates, curr_prices, curr_oi>>
detectVars == <<embeds, idx>>
oiVars == <<semaphore, tasks, results, oiAnswer>>
fileVars == <<fileExists, fileColumns, fileRows>>
postVars == <<postCalls, payload, postAnswer>>

\* module level of main.py, then the first line of main()
Init ==
  /\ pc = "resolve"
  /\ cycle = 0
  /\ log = "start"
  /\ timer = 0
  /\ DISCORD_WEBHOOK_URL \in {None, Some("url")}
  /\ symbols = <<>>
  /\ prev_prices = EmptyDict /\ curr_prices = EmptyDict
  /\ prev_oi = EmptyDict /\ curr_oi = EmptyDict
  /\ funding_rates = Some(EmptyDict)
  /\ embeds = <<>>
  /\ idx = 1
  /\ semaphore = SemaphoreValue
  /\ tasks = <<>>
  /\ results = EmptyDict
  /\ oiAnswer = EmptyDict
  /\ fileExists = FALSE /\ fileColumns = <<>> /\ fileRows = <<>>
  /\ postCalls = 0
  /\ payload = <<>>
  /\ fresh = {}
  /\ funding_outcome = "none"
  /\ symbols_outcome = "none"
  /\ postAnswer = "none"
  /\ blocked = FALSE

----------------------------------------------------------------------------
(* Snapshot fetchers *)

\* the filter of get_all_symbols on one entry of exchangeInfo
Eligible(entry) ==
  /\ entry.status = "TRADING"
  /\ ~entry.usdc
  /\ entry.contractType = "PERPETUAL"
  /\ ~entry.dated

\* a resolver that filters whatever body it was answered, without the test
\* of the status and without the try block
get_all_symbols_Unguarded(outcome, listing) ==
  LET n == Cardinality(DOMAIN listing)
      Keep(s) == Eligible(listing[s])
  IN SelectSeq(Prefix(n), Keep)

\* get_all_symbols(): the eligible symbols in listing order; [] when the
\* status is not 200 or anything raises
get_all_symbols(outcome, listing) ==
  IF outcome = "ok"
    THEN LET n == Cardinality(DOMAIN listing)
             Keep(s) == Eligible(listing[s])
         IN SelectSeq(Prefix(n), Keep)
    ELSE <<>>

\* get_all_prices(): the dict of the ticker; {} when anything raises (the
\* body of a non-200 answer is no list of tickers, so building the dict raises)
get_all_prices(outcome, ticker) == IF outcome = "ok" THEN ticker ELSE EmptyDict

\* get_funding_rates(): the dict of the entries that carry lastFundingRate;
\* {} when anything raises; a non-200 status falls off the end of the
\* function, which returns None
get_funding_rates(outcome, premium) ==
  CASE outcome = "ok" -> Some(premium)
    [] outcome = "exception" -> Some(EmptyDict)
    [] OTHER -> None

\* the dicts a bulk endpoint answers with in the scheduler specification:
\* an entry for every listed symbol, or none (the detection specification
\* draws the snapshots with symbol-wise gaps)
Dicts(values) == UNION {[K -> values] : K \in {{}, 1..MaxSymbols}}

\* symbols = get_all_symbols(), the first statement of the try block
ResolveUniverse ==
  /\ pc = "resolve"
  /\ ~blocked
  /\ cycle < MaxCycles
  /\ \E outcome \in Outcomes, listing \in [1..MaxSymbols -> Listing] :
       /\ symbols' = get_all_symbols(outcome, listing)
       /\ symbols_outcome' = outcome
       /\ log' = IF outcome = "exception" THEN "symbols failed" ELSE log
  /\ pc' = "prev_prices"
  /\ cycle' = cycle + 1
  /\ fresh' = {"symbols"}
  /\ postCalls' = 0
  /\ payload' = <<>>
  /\ postAnswer' = "none"
  /\ UNCHANGED <<timer, DISCORD_WEBHOOK_URL, prev_prices, prev_oi, funding_rates,
                 curr_prices, curr_oi, detectVars, oiVars, fileVars,
                 funding_outcome, blocked>>

\* prev_prices = get_all_prices()
GetPrevPrices ==
  /\ pc = "prev_prices"
  /\ ~blocked
  /\ \E outcome \in Outcomes, ticker \in Dicts(PriceValues) :
       prev_prices' = get_all_prices(outcome, ticker)
  /\ pc' = "prev_oi"
  /\ fresh' = fresh \cup {"prev_prices"}
  /\ UNCHANGED <<cycle, log, timer, DISCORD_WEBHOOK_URL, symbols, prev_oi,
                 funding_rates, curr_prices, curr_oi, detectVars, oiVars,
                 fileVars, postVars, funding_outcome, symbols_outcome, blocked>>

\* curr_prices = get_all_prices()
GetCurrPrices ==
  /\ pc = "curr_prices"
  /\ ~blocked
  /\ \E outcome \in Outcomes, ticker \in Dicts(PriceValues) :
       curr_prices' = get_all_prices(outcome, ticker)
  /\ pc' = "curr_oi"
  /\ fresh' = fresh \cup {"curr_prices"}
  /\ UNCHANGED <<cycle, log, timer, DISCORD_WEBHOOK_URL, symbols, prev_prices,
                 prev_oi, funding_rates, curr_oi, detectVars, oiVars,
                 fileVars, postVars, funding_outcome, symbols_outcome, blocked>>

\* funding_rates = get_funding_rates()
GetFundingRates ==
  /\ pc = "funding"
  /\ ~blocked
  /\ \E outcome \in Outcomes, premium \in Dicts(FundingValues) :
       /\ funding_rates' = get_funding_rates(outcome, premium)
       /\ funding_outcome' = outcome
  /\ pc' = "persist"
  /\ fresh' = fresh \cup {"funding_rates"}
  /\ UNCHANGED <<cycle, log, timer, DISCORD_WEBHOOK_URL, symbols, prev_prices,
                 prev_oi, curr_prices, curr_oi, detectVars, oiVars,
                 fileVars, postVars, symbols_outcome, blocked>>

----------------------------------------------------------------------------
(* Bounded open-interest collector *)

\* the answers of GET /openInterest: a 200 with a value, a non-200 status,
\* or an exception (network error, payload without a parsable openInterest)
Responses(values) ==
  [kind : {"ok"}, v : values] \cup [kind : {"status", "exception"}, v : {0}]

\* the answers of the scheduler specification
OIResponses == {r \in Responses(OIValues) : r.kind # "status"}

\* a fetch_open_interest that does not test response.status
fetch_open_interest_NoStatusTest(symbol, resp) ==
  <<symbol, IF resp.kind # "exception" THEN Some(resp.v) ELSE None>>

\* what fetch_open_interest returns for one answer: (symbol, value) or
\* (symbol, None)
fetch_open_interest(symbol, resp) ==
  <<symbol, IF resp.kind = "ok" THEN Some(resp.v) ELSE None>>

\* dict(results): the last pair of each key wins
DictOf(res) ==
  [s \in {res[k][1] : k \in DOMAIN res} |->
     LET last == CHOOSE k \in DOMAIN res :
                   /\ res[k][1] = s
                   /\ \A j \in DOMAIN res : res[j][1] = s => j <= k
     IN res[last][2]]

Gathering == pc \in {"prev_oi_gather", "curr_oi_gather"}

InFlight == {k \in DOMAIN tasks : tasks[k] = "inflight"}

\* get_all_open_interest(symbols) up to the await of gather: a new
\* semaphore and one task per symbol, none started yet
CallGetAllOI ==
  /\ pc \in {"prev_oi", "curr_oi"}
  /\ pc' = IF pc = "prev_oi" THEN "prev_oi_gather" ELSE "curr_oi_gather"
  /\ semaphore' = SemaphoreValue
  /\ tasks' = [k \in 1..Len(symbols) |-> "waiting"]
  /\ results' = EmptyDict
  /\ oiAnswer' \in [Range(symbols) -> OIResponses]
  /\ UNCHANGED <<cycle, log, timer, DISCORD_WEBHOOK_URL, snapVars, detectVars,
                 fileVars, postVars, fresh, funding_outcome, symbols_outcome, blocked>>

\* a semaphore that never makes a task wait
SemaphoreFree_Unbounded == TRUE

\* Semaphore.acquire succeeds without waiting
SemaphoreFree == semaphore > 0

\* `async with semaphore` of task k, then session.get: waiters are served
\* in the order the tasks were created
Acquire(k) ==
  /\ Gathering
  /\ tasks[k] = "waiting"
  /\ \A j \in 1..(k - 1) : tasks[j] # "waiting"
  /\ SemaphoreFree
  /\ semaphore' = semaphore - 1
  /\ tasks' = [tasks EXCEPT ![k] = "inflight"]
  /\ UNCHANGED <<schedVars, DISCORD_WEBHOOK_URL, snapVars, detectVars, results,
                 oiAnswer, fileVars, postVars, fresh, funding_outcome, symbols_outcome, blocked>>

\* the request of task k resolves: the task returns its pair and leaves
\* `async with semaphore`
Resolve(k) ==
  /\ Gathering
  /\ tasks[k] = "inflight"
  /\ results' = (k :> fetch_open_interest(symbols[k], oiAnswer[symbols[k]])) @@ results
  /\ tasks' = [tasks EXCEPT ![k] = "done"]
  /\ semaphore' = semaphore + 1
  /\ UNCHANGED <<schedVars, DISCORD_WEBHOOK_URL, snapVars, detectVars,
                 oiAnswer, fileVars, postVars, fresh, funding_outcome, symbols_outcome, blocked>>

\* a gather that returns with the first result (return_when=FIRST_COMPLETED)
AllDone_FirstCompleted == \E k \in DOMAIN tasks : tasks[k] = "done"

\* tasks that are created and not awaited (no gather)
AllDone_NotAwaited == TRUE

\* gather has every result
AllDone == \A k \in DOMAIN tasks : tasks[k] = "done"

\* results = await asyncio.gather(*tasks); return dict(results): the
\* caller's assignment to prev_oi (line 95) or to curr_oi (line 110, followed
\* by embeds = [] and the start of the detection loop)
\* The finished tasks, the session and the semaphore are dropped with the
\* frame of get_all_open_interest; a task that has not finished stays.
GatherReturn ==
  /\ Gathering
  /\ AllDone
  /\ IF pc = "prev_oi_gather"
       THEN /\ prev_oi' = DictOf(results)
            /\ pc' = "funding"
            /\ fresh' = fresh \cup {"prev_oi"}
            /\ UNCHANGED <<curr_oi, detectVars>>
       ELSE /\ curr_oi' = DictOf(results)
            /\ pc' = "detect"
            /\ fresh' = fresh \cup {"curr_oi", "embeds"}
            /\ embeds' = <<>>
            /\ idx' = 1
            /\ UNCHANGED prev_oi
  /\ tasks' = [k \in {j \in DOMAIN tasks : tasks[j] # "done"} |-> tasks[k]]
  /\ results' = EmptyDict
  /\ oiAnswer' = EmptyDict
  /\ semaphore' = SemaphoreValue
  /\ UNCHANGED <<cycle, log, timer, DISCORD_WEBHOOK_URL, symbols, prev_prices,
                 funding_rates, curr_prices, fileVars, postVars, funding_outcome, symbols_outcome, blocked>>

\* the names main() has assigned in the current iteration when it is at
\* the given position
AssignedAt(p) ==
  CASE p \in {"resolve", "backoff"} -> {}
    [] p = "prev_prices" -> {"symbols"}
    [] p \in {"prev_oi", "prev_oi_gather"} -> {"symbols", "prev_prices"}
    [] p = "funding" -> {"symbols", "prev_prices", "prev_oi"}
    [] p \in {"persist", "wait", "curr_prices"} ->
         {"symbols", "prev_prices", "prev_oi", "funding_rates"}
    [] p \in {"curr_oi", "curr_oi_gather"} ->
         {"symbols", "prev_prices", "prev_oi", "funding_rates", "curr_prices"}
    [] OTHER -> {"symbols", "prev_prices", "prev_oi", "funding_rates",
                 "curr_prices", "curr_oi", "embeds"}

----------------------------------------------------------------------------
(* The except branch of main(), and the end of one iteration *)

\* The names bound by one iteration of `while True` stay bound when the
\* next iteration starts, but each is assigned again before it is read
\* (ReadsAreFresh states this of every position of main()).  The model
\* gives them the values of Init when the iteration ends, and `fresh`
\* records which of them the new iteration has assigned.
EndOfIteration ==
  /\ symbols' = <<>>
  /\ prev_prices' = EmptyDict /\ curr_prices' = EmptyDict
  /\ prev_oi' = EmptyDict /\ curr_oi' = EmptyDict
  /\ funding_rates' = Some(EmptyDict)
  /\ embeds' = <<>>
  /\ idx' = 1
  /\ fresh' = {}
  /\ funding_outcome' = "none"
  /\ symbols_outcome' = "none"
  /\ blocked' = FALSE

\* an exception reaches `except Exception as e`: logger.error, then
\* asyncio.sleep(10) begins
Raise ==
  /\ pc' = "backoff"
  /\ log' = "run error"
  /\ timer' = ERROR_SLEEP
  /\ EndOfIteration

\* a retry that goes on with the second half of the failed iteration
Backoff_Resume ==
  /\ pc = "backoff"
  /\ pc' = "curr_prices"
  /\ timer' = 0
  /\ UNCHANGED <<cycle, log, DISCORD_WEBHOOK_URL, snapVars, detectVars, oiVars,
                 fileVars, postVars, fresh, funding_outcome, symbols_outcome, blocked>>

\* asyncio.sleep(10) ends and `while True` starts the next iteration
Backoff ==
  /\ pc = "backoff"
  /\ pc' = "resolve"
  /\ timer' = 0
  /\ UNCHANGED <<cycle, log, DISCORD_WEBHOOK_URL, snapVars, detectVars, oiVars,
                 fileVars, postVars, fresh, funding_outcome, symbols_outcome, blocked>>

----------------------------------------------------------------------------
(* Start snapshot: data_start and save_to_csv *)

\* the condition of the comprehension of data_start
HasStart(s) == s \in DOMAIN prev_prices /\ Truthy(Get(prev_oi, s))

\* the symbols data_start has a row for, in the order of symbols
StartSymbols == SelectSeq(symbols, HasStart)

\* data_start; funding_rates is not None where this is used
data_start ==
  LET valid == StartSymbols
      rates == Val(funding_rates)
  IN [k \in 1..Len(valid) |->
        [symbol |-> valid[k], price |-> prev_prices[valid[k]],
         oi |-> Val(prev_oi[valid[k]]),
         funding |-> GetOr(rates, valid[k], 0), phase |-> "start"]]

\* the columns of pd.DataFrame(data) after df['timestamp'] = timestamp: an
\* empty list makes a frame whose only column is timestamp
FrameColumns(data) ==
  IF data = <<>> THEN <<"timestamp">>
  ELSE <<"symbol", "price", "oi", "funding", "phase", "timestamp">>

\* the rows of that frame
FrameRows(data, timestamp) ==
  LET d == data
  IN [k \in 1..Len(d) |->
        LET r == d[k]
        IN [symbol |-> r.symbol, price |-> r.price, oi |-> r.oi,
            funding |-> r.funding, phase |-> r.phase, timestamp |-> timestamp]]

\* a save_to_csv without the test of os.path.exists: df.to_csv(DATA_FILE,
\* index=False) on every call, which writes the file anew
save_to_csv_Overwrite(data, timestamp) ==
  /\ fileExists' = TRUE
  /\ fileColumns' = FrameColumns(data)
  /\ fileRows' = FrameRows(data, timestamp)

\* save_to_csv(data, timestamp): header and rows into a missing file, rows
\* alone appended to an existing one
save_to_csv(data, timestamp) ==
  /\ fileExists' = TRUE
  /\ fileColumns' = IF fileExists THEN fileColumns ELSE FrameColumns(data)
  /\ fileRows' = fileRows \o FrameRows(data, timestamp)

\* lines 98-107: start_time, data_start (funding_rates.get raises
\* AttributeError on None as soon as one symbol passes the condition),
\* save_to_csv (which may fail to open the file), then asyncio.sleep begins
PersistStart ==
  /\ pc = "persist"
  /\ UNCHANGED <<cycle, DISCORD_WEBHOOK_URL, oiVars, postVars>>
  /\ IF StartSymbols # <<>> /\ funding_rates = None
       THEN Raise /\ UNCHANGED fileVars
       ELSE \E io \in {"ok", "oserror"} :
              IF io = "ok"
                THEN /\ save_to_csv(data_start, cycle)
                     /\ pc' = "wait"
                     /\ timer' = CHECK_INTERVAL
                     /\ UNCHANGED <<log, snapVars, detectVars, fresh, funding_outcome, symbols_outcome, blocked>>
                ELSE Raise /\ UNCHANGED fileVars

\* asyncio.sleep(CHECK_INTERVAL) ends
Wait ==
  /\ pc = "wait"
  /\ pc' = "curr_prices"
  /\ timer' = 0
  /\ UNCHANGED <<cycle, log, DISCORD_WEBHOOK_URL, snapVars, detectVars, oiVars,
                 fileVars, postVars, fresh, funding_outcome, symbols_outcome, blocked>>

----------------------------------------------------------------------------
(* Anomaly detection and dispatch *)

\* a skip test that wants both open-interest values missing (and for or)
Skipped_BothMissing(s) ==
  \/ s \notin DOMAIN prev_prices
  \/ s \notin DOMAIN curr_prices
  \/ (~Truthy(Get(prev_oi, s)) /\ ~Truthy(Get(curr_oi, s)))

\* line 114: the symbol is skipped
Skipped(s) ==
  \/ s \notin DOMAIN prev_prices
  \/ s \notin DOMAIN curr_prices
  \/ ~Truthy(Get(prev_oi, s))
  \/ ~Truthy(Get(curr_oi, s))

\* a test that lets the threshold itself through (>= for >)
IsAnomaly_Inclusive(oi_chg, prc_chg) ==
  /\ ~FracLT(oi_chg, OI_THRESHOLD, 1)
  /\ AbsFracLT(prc_chg, PRICE_THRESHOLD_TENTHS, 10)

\* line 121
IsAnomaly(oi_chg, prc_chg) ==
  /\ FracGT(oi_chg, OI_THRESHOLD, 1)
  /\ AbsFracLT(prc_chg, PRICE_THRESHOLD_TENTHS, 10)

\* a classification whose bullish branch includes the boundary (>= 0.3)
Direction_Inclusive(prc_chg) ==
  IF ~FracLT(prc_chg, DIRECTION_TENTHS, 10) THEN "bullish-accumulation"
  ELSE IF FracLT(prc_chg, 0 - DIRECTION_TENTHS, 10) THEN "bearish-accumulation"
  ELSE "flat-accumulation"

\* line 123: the three labels, named as the enum of the design
Direction(prc_chg) ==
  IF FracGT(prc_chg, DIRECTION_TENTHS, 10) THEN "bullish-accumulation"
  ELSE IF FracLT(prc_chg, 0 - DIRECTION_TENTHS, 10) THEN "bearish-accumulation"
  ELSE "flat-accumulation"

\* line 124
Color(prc_chg) ==
  IF FracGT(prc_chg, DIRECTION_TENTHS, 10) THEN "0x00FF00"
  ELSE IF FracLT(prc_chg, 0 - DIRECTION_TENTHS, 10) THEN "0xFF0000"
  ELSE "0xFFFF00"

\* lines 126-135: the embed of one anomaly (the fields before formatting)
Embed(s, oi_chg, prc_chg, funding) ==
  [title |-> s, color |-> Color(prc_chg), direction |-> Direction(prc_chg),
   oi_chg |-> oi_chg, prc_chg |-> prc_chg, funding |-> funding]

DetectVarsKept == UNCHANGED <<cycle, DISCORD_WEBHOOK_URL, oiVars, fileVars, postVars>>

\* lines 117-119 raise for the symbol: KeyError for a missing price,
\* TypeError for an open interest of None, ZeroDivisionError for a zero prev
\* value, AttributeError when funding_rates is None
Raises(s) ==
  \/ s \notin DOMAIN prev_prices
  \/ s \notin DOMAIN curr_prices
  \/ Get(prev_oi, s) = None
  \/ Get(curr_oi, s) = None
  \/ Val(prev_oi[s]) = 0
  \/ prev_prices[s] = 0
  \/ funding_rates = None

\* one pass of the body of `for s in symbols` (lines 113-135)
DetectStep ==
  /\ pc = "detect"
  /\ idx <= Len(symbols)
  /\ DetectVarsKept
  /\ LET s == symbols[idx] IN
       IF Skipped(s)
         THEN /\ idx' = idx + 1
              /\ UNCHANGED <<schedVars, snapVars, embeds, fresh, funding_outcome, symbols_outcome, blocked>>
       ELSE IF Raises(s)
         THEN Raise
       ELSE LET oi_chg == PctChange(Val(prev_oi[s]), Val(curr_oi[s]))
                prc_chg == PctChange(prev_prices[s], curr_prices[s])
                funding == GetOr(Val(funding_rates), s, 0)
            IN /\ embeds' = IF IsAnomaly(oi_chg, prc_chg)
                              THEN Append(embeds, Embed(s, oi_chg, prc_chg, funding))
                              ELSE embeds
               /\ idx' = idx + 1
               /\ UNCHANGED <<schedVars, snapVars, fresh, funding_outcome, symbols_outcome, blocked>>

\* a payload that is not cut
Payload_Uncut(e) == e

\* embeds[:10]
Payload(e) == Take(e, EMBEDS_SLICE)

\* lines 137-139 once the loop is over: nothing to send, or session.post is
\* called with the first embeds
Dispatch ==
  /\ pc = "detect"
  /\ idx > Len(symbols)
  /\ IF embeds = <<>>
       THEN /\ pc' = "complete"
            /\ UNCHANGED postVars
       ELSE /\ pc' = "posting"
            /\ postCalls' = postCalls + 1
            /\ payload' = Payload(embeds)
            /\ postAnswer' \in Outcomes
  /\ UNCHANGED <<cycle, log, timer, DISCORD_WEBHOOK_URL, snapVars, detectVars,
                 oiVars, fileVars, fresh, funding_outcome, symbols_outcome, blocked>>

\* session.post raises: the URL is None (aiohttp refuses it before anything
\* is sent), or the request fails (connection error, or no answer within
\* the total timeout of the session)
PostFails == DISCORD_WEBHOOK_URL = None \/ postAnswer = "exception"

\* a dispatcher that catches the failure of the post and sends again
PostReturn_Retry ==
  /\ pc = "posting"
  /\ postAnswer' = "none"
  /\ pc' = IF PostFails THEN "detect" ELSE "complete"
  /\ UNCHANGED <<cycle, log, timer, DISCORD_WEBHOOK_URL, snapVars, detectVars,
                 oiVars, fileVars, postCalls, payload, fresh, funding_outcome,
                 symbols_outcome, blocked>>

\* await session.post(...) ends: it raises, or it returns a response whose
\* status is not looked at
PostReturn ==
  /\ pc = "posting"
  /\ postAnswer' = "none"
  /\ UNCHANGED <<cycle, DISCORD_WEBHOOK_URL, oiVars, fileVars, postCalls, payload>>
  /\ IF PostFails
       THEN Raise
       ELSE /\ pc' = "complete"
            /\ UNCHANGED <<log, timer, snapVars, detectVars, fresh,
                           funding_outcome, symbols_outcome, blocked>>

\* line 141, the end of the try block: the iteration is over
LogComplete ==
  /\ pc = "complete"
  /\ pc' = "resolve"
  /\ log' = "check complete"
  /\ EndOfIteration
  /\ UNCHANGED <<cycle, timer, DISCORD_WEBHOOK_URL, oiVars, fileVars, postVars>>

----------------------------------------------------------------------------
(* The scheduler: main() from its first line *)

\* requests.get(url) is called without a timeout (lines 34, 50, 56): when
\* the exchange never answers, the call never returns and main(), which
\* makes it on the event loop's thread, goes no further
RequestHangs ==
  /\ pc \in {"resolve", "prev_prices", "funding", "curr_prices"}
  /\ pc = "resolve" => cycle < MaxCycles
  /\ ~blocked
  /\ blocked' = TRUE
  /\ UNCHANGED <<schedVars, DISCORD_WEBHOOK_URL, snapVars, detectVars, oiVars,
                 fileVars, postVars, fresh, funding_outcome, symbols_outcome>>

Next ==
  \/ ResolveUniverse
  \/ RequestHangs
  \/ GetPrevPrices
  \/ CallGetAllOI
  \/ \E k \in DOMAIN tasks : Acquire(k)
  \/ \E k \in DOMAIN tasks : Resolve(k)
  \/ GatherReturn
  \/ GetFundingRates
  \/ PersistStart
  \/ Wait
  \/ GetCurrPrices
  \/ DetectStep
  \/ Dispatch
  \/ PostReturn
  \/ LogComplete
  \/ Backoff

Spec == Init /\ [][Next]_vars

\* The scheduler with its progress: a step that can be taken is taken in
\* the end.  The steps of main() are computations, sleeps that expire, the
\* return of an aiohttp request (which the session's total timeout ends
\* when no answer comes, as an exception) and the return of a requests.get,
\* for which the other possibility, that it never returns, is the step
\* RequestHangs.
SpecLive == Init /\ [][Next]_vars /\ WF_vars(Next)

----------------------------------------------------------------------------
(* The collector alone: get_all_open_interest(symbols) from its await *)

\* the answers drawn for a batch of n symbols: every answer for the small
\* batches, one alternating pattern for the batch beyond the semaphore
BatchAnswers(n) ==
  IF n <= MaxSymbols
    THEN [1..n -> Responses(OIValues \cup {0})]
    ELSE {[s \in 1..n |-> IF s % 2 = 0 THEN [kind |-> "exception", v |-> 0]
                          ELSE [kind |-> "ok", v |-> 1000]]}

\* main() at line 95 or at line 110, inside get_all_open_interest with the
\* tasks created; every earlier fetch of the iteration failed
InitCollector ==
  /\ pc \in {"prev_oi_gather", "curr_oi_gather"}
  /\ cycle = 1
  /\ log = "start"
  /\ timer = 0
  /\ DISCORD_WEBHOOK_URL = None
  /\ \E n \in (0..MaxSymbols) \cup {MaxOISymbols} :
       /\ symbols = Prefix(n)
       /\ oiAnswer \in BatchAnswers(n)
       /\ tasks = [k \in 1..n |-> "waiting"]
       /\ prev_oi = IF pc = "prev_oi_gather" THEN EmptyDict
                    ELSE [s \in 1..n |-> None]
  /\ prev_prices = EmptyDict /\ curr_prices = EmptyDict
  /\ curr_oi = EmptyDict
  /\ funding_rates = Some(EmptyDict)
  /\ embeds = <<>>
  /\ idx = 1
  /\ semaphore = SemaphoreValue
  /\ results = EmptyDict
  /\ fileExists = (pc = "curr_oi_gather")
  /\ fileColumns = IF fileExists THEN <<"timestamp">> ELSE <<>>
  /\ fileRows = <<>>
  /\ postCalls = 0
  /\ payload = <<>>
  /\ fresh = AssignedAt(pc)
  /\ funding_outcome = IF "funding_rates" \in fresh THEN "exception" ELSE "none"
  /\ symbols_outcome = "ok"
  /\ postAnswer = "none"
  /\ blocked = FALSE

NextCollector ==
  \/ \E k \in DOMAIN tasks : Acquire(k)
  \/ \E k \in DOMAIN tasks : Resolve(k)
  \/ GatherReturn

SpecCollector == InitCollector /\ [][NextCollector]_vars

----------------------------------------------------------------------------
(* Detection and dispatch alone: main() from line 112 *)

\* the dict of the symbols an optional value is drawn for
DictOfOptions(o) == [s \in {x \in DOMAIN o : o[x] # None} |-> Val(o[s])]

Options(values) == {None} \cup {Some(v) : v \in values}

\* what is drawn for each symbol of a universe of n symbols
PrevPriceOptions(n) ==
  IF n <= MaxMediumSymbols THEN Options(DetectPrevValues) ELSE {Some(1000)}
PrevOIOptions(n) ==
  IF n <= MaxMediumSymbols THEN Options(DetectPrevValues) ELSE {Some(1000)}
CurrPriceOptions(n) ==
  IF n <= MaxRichSymbols THEN Options(DetectPriceValues)
  ELSE IF n <= MaxMediumSymbols THEN Options({1005})
  ELSE {Some(1005)}
CurrOIOptions(n) ==
  IF n <= MaxRichSymbols THEN Options(DetectOIValues)
  ELSE IF n <= MaxMediumSymbols THEN Options({0, 1060})
  ELSE {Some(1000), Some(1060)}

\* main() at line 112 of an iteration whose start snapshot was saved
InitDetect ==
  /\ pc = "detect"
  /\ cycle = 1
  /\ log = "start"
  /\ timer = 0
  /\ DISCORD_WEBHOOK_URL \in {None, Some("url")}
  /\ \E n \in 0..MaxWideSymbols :
       /\ symbols = Prefix(n)
       /\ \E o \in [1..n -> PrevPriceOptions(n)] : prev_prices = DictOfOptions(o)
       /\ prev_oi \in [1..n -> PrevOIOptions(n)]
       /\ \E o \in [1..n -> CurrPriceOptions(n)] : curr_prices = DictOfOptions(o)
       /\ curr_oi \in [1..n -> CurrOIOptions(n)]
       /\ funding_rates = Some([s \in {x \in 1..n : x % 2 = 1} |-> 1])
  /\ embeds = <<>>
  /\ idx = 1
  /\ semaphore = SemaphoreValue
  /\ tasks = <<>>
  /\ results = EmptyDict
  /\ oiAnswer = EmptyDict
  /\ fileExists = TRUE
  /\ fileColumns = FrameColumns(data_start)
  /\ fileRows = FrameRows(data_start, cycle)
  /\ postCalls = 0
  /\ payload = <<>>
  /\ fresh = AssignedAt(pc)
  /\ funding_outcome = "ok"
  /\ symbols_outcome = "ok"
  /\ postAnswer = "none"
  /\ blocked = FALSE

NextDetect ==
  \/ DetectStep
  \/ Dispatch
  \/ PostReturn
  \/ LogComplete
  \/ Backoff

SpecDetect == InitDetect /\ [][NextDetect]_vars

----------------------------------------------------------------------------
(* The start snapshot alone: main() from line 98 *)

\* the row a history log left by an earlier run of the program holds
EarlierRow ==
  [symbol |-> 1, price |-> 1000, oi |-> 1000, funding |-> 0,
   phase |-> "start", timestamp |-> 0]

\* main() at line 98 with the four fetches of the start snapshot done: each
\* symbol has a price or none, an open interest (0 included) or None;
\* the funding fetch succeeded, raised, or answered a non-200 status;
\* DATA_FILE is missing or was left by an earlier run
InitPersist ==
  /\ pc = "persist"
  /\ cycle = 1
  /\ log = "start"
  /\ timer = 0
  /\ DISCORD_WEBHOOK_URL = None
  /\ \E n \in 0..MaxPersistSymbols :
       /\ symbols = Prefix(n)
       /\ \E o \in [1..n -> Options(PersistValues)] : prev_prices = DictOfOptions(o)
       /\ prev_oi \in [1..n -> Options(PersistValues)]
       /\ \E outcome \in Outcomes :
            /\ funding_outcome = outcome
            /\ funding_rates = get_funding_rates(outcome, [s \in 1..n |-> 1])
  /\ curr_prices = EmptyDict
  /\ curr_oi = EmptyDict
  /\ embeds = <<>>
  /\ idx = 1
  /\ semaphore = SemaphoreValue
  /\ tasks = <<>>
  /\ results = EmptyDict
  /\ oiAnswer = EmptyDict
  /\ fileExists \in BOOLEAN
  /\ fileColumns = IF fileExists THEN FrameColumns(<<EarlierRow>>) ELSE <<>>
  /\ fileRows = IF fileExists THEN <<EarlierRow>> ELSE <<>>
  /\ postCalls = 0
  /\ payload = <<>>
  /\ fresh = AssignedAt(pc)
  /\ symbols_outcome = "ok"
  /\ postAnswer = "none"
  /\ blocked = FALSE

NextPersist ==
  \/ PersistStart
  \/ Wait
  \/ Backoff

SpecPersist == InitPersist /\ [][NextPersist]_vars

----------------------------------------------------------------------------
(* Properties of the collector, checked under SpecCollector *)

\* the dict the caller of get_all_open_interest holds after the step
ReturnedOI == IF pc = "prev_oi_gather" THEN prev_oi' ELSE curr_oi'

\* get_all_open_interest returns in this step
Returns == Gathering /\ pc' # pc

\* C1: at every instant of get_all_open_interest, whatever the number of
\* symbols and the order in which the requests complete, at most 15
\* requests have been issued and have not resolved.
C1_AtMost15Outstanding == Cardinality(InFlight) <= 15

\* 15 requests are outstanding while further symbols wait for a permit
C1_Witness ==
  /\ Cardinality(InFlight) = 15
  /\ \E k \in DOMAIN tasks : tasks[k] = "waiting"

\* C2: get_all_open_interest returns only when every fetch of the batch has
\* resolved; the dict it returns has exactly the input symbols as keys; the
\* scheduler goes on to the funding fetch (start) or to detection (end) and
\* is at no later position while a fetch is unresolved.
C2_FanInBarrier ==
  /\ [](~Gathering => \A k \in DOMAIN tasks : tasks[k] = "done")
  /\ [][Returns =>
          /\ \A k \in 1..Len(symbols) : k \in DOMAIN tasks /\ tasks[k] = "done"
          /\ DOMAIN ReturnedOI = Range(symbols)
          /\ pc' = IF pc = "prev_oi_gather" THEN "funding" ELSE "detect"]_vars

\* a batch larger than the semaphore has returned to the scheduler
C2_Witness ==
  /\ pc = "funding"
  /\ Len(symbols) > 15
  /\ DOMAIN prev_oi = Range(symbols)

\* C3: a failed fetch (exception or non-200 status) makes its symbol absent
\* (None) in the returned dict, every symbol whose fetch succeeds is mapped
\* to the fetched value, and the batch never raises to the scheduler.
C3_FailureIsLocal ==
  /\ [][Gathering => pc' # "backoff"]_vars
  /\ [][Returns =>
          \A s \in Range(symbols) :
            ReturnedOI[s] = IF oiAnswer[s].kind = "ok"
                              THEN Some(oiAnswer[s].v) ELSE None]_vars

\* a returned dict in which one symbol is absent and another has the value
\* the exchange answered
C3_Witness ==
  /\ pc = "funding"
  /\ \E s, u \in DOMAIN prev_oi : prev_oi[s] = None /\ prev_oi[u] = Some(1060)

----------------------------------------------------------------------------
(* Properties of detection and dispatch, checked under SpecDetect *)

\* the symbols the detection loop has been through
Evaluated ==
  IF pc = "detect" THEN {symbols[k] : k \in 1..(idx - 1)}
  ELSE IF pc \in {"posting", "complete"} THEN Range(symbols)
  ELSE {}

\* the symbols that have a record
Flagged == {embeds[k].title : k \in 1..Len(embeds)}

\* the symbol has a price and a positive open interest in both snapshots
Complete(s) ==
  /\ s \in DOMAIN prev_prices /\ s \in DOMAIN curr_prices
  /\ \E v \in Get(prev_oi, s) : v > 0
  /\ \E v \in Get(curr_oi, s) : v > 0

Abs(x) == IF x < 0 THEN 0 - x ELSE x

\* (curr.oi - prev.oi)/prev.oi*100 > 5 and
\* |(curr.price - prev.price)/prev.price*100| < 1.2, for positive prev values
Thresholds(s) ==
  /\ (Val(curr_oi[s]) - Val(prev_oi[s])) * 100 > 5 * Val(prev_oi[s])
  /\ Abs(curr_prices[s] - prev_prices[s]) * 1000 < 12 * prev_prices[s]

\* C4: every symbol the detection loop has evaluated that has a price and a
\* positive open interest in both snapshots has an anomaly record if and
\* only if its open interest grew by more than 5 % and its price moved by
\* less than 1.2 %, both strictly.
C4_EmittedIffThresholds ==
  \A s \in Evaluated : Complete(s) => (s \in Flagged <=> Thresholds(s))

\* the loop is over and has a record for a symbol whose open interest is
\* up by 5.1 % and whose price is up by 1.1 %
C4_Witness ==
  /\ pc \in {"posting", "complete"}
  /\ \E s \in Flagged :
       /\ Val(prev_oi[s]) = 1000 /\ Val(curr_oi[s]) = 1051
       /\ prev_prices[s] = 1000 /\ curr_prices[s] = 1011

\* the direction and the colour the price change of a record calls for
ExpectedDirection(s) ==
  LET d == (curr_prices[s] - prev_prices[s]) * 1000
      b == 3 * prev_prices[s]
  IN IF d > b THEN <<"bullish-accumulation", "0x00FF00">>
     ELSE IF d < 0 - b THEN <<"bearish-accumulation", "0xFF0000">>
     ELSE <<"flat-accumulation", "0xFFFF00">>

\* C5: the direction and the colour of every record are those of its price
\* change alone: bullish above 0.3 %, bearish below -0.3 %, flat otherwise,
\* flat at exactly 0.3 % and at exactly -0.3 %.
C5_DirectionByPriceChange ==
  \A k \in 1..Len(embeds) :
    <<embeds[k].direction, embeds[k].color>> = ExpectedDirection(embeds[k].title)

\* a record whose price change is exactly 0.3 % is flat
C5_Witness ==
  \E k \in 1..Len(embeds) :
    /\ prev_prices[embeds[k].title] = 1000
    /\ curr_prices[embeds[k].title] = 1003
    /\ embeds[k].direction = "flat-accumulation"

\* the symbol lacks a price or an open-interest value in one of the snapshots
Lacking(s) ==
  \/ s \notin DOMAIN prev_prices \/ s \notin DOMAIN curr_prices
  \/ Get(prev_oi, s) = None \/ Get(curr_oi, s) = None

\* the detection loop is at symbol s
At(s) == pc = "detect" /\ idx <= Len(symbols) /\ symbols[idx] = s

\* the loop goes on to the next symbol and leaves the records as they are
SkipsOn == pc' = "detect" /\ idx' = idx + 1 /\ embeds' = embeds

\* C6: no record exists for a symbol that lacks a price or an open-interest
\* value in either snapshot, and the pass of the loop over such a symbol
\* raises nothing and leaves the records of the other symbols as they are.
C6_LackingSymbolSkipped ==
  /\ [](\A s \in Flagged : ~Lacking(s))
  /\ [][\A s \in Range(symbols) : At(s) /\ Lacking(s) => SkipsOn]_vars

\* the loop is over, a symbol without end-snapshot open interest has no
\* record and a symbol evaluated after it has one
C6_Witness ==
  /\ pc \in {"posting", "complete"}
  /\ \E s, u \in Range(symbols) :
       /\ s < u
       /\ Get(curr_oi, s) = None /\ Truthy(Get(prev_oi, s))
       /\ s \in DOMAIN prev_prices /\ s \in DOMAIN curr_prices
       /\ s \notin Flagged /\ u \in Flagged

\* C7: the pass of the loop over a symbol whose start-snapshot open interest
\* is exactly 0 raises nothing: the symbol is skipped and the loop goes on
\* to the remaining symbols.
C7_ZeroStartOISkipped ==
  [][\A s \in Range(symbols) : At(s) /\ Get(prev_oi, s) = Some(0) => SkipsOn]_vars

\* dispatch is reached in an iteration with a symbol of start open interest
\* 0 (its other values present), with a record for a symbol evaluated after it
C7_Witness ==
  /\ pc \in {"posting", "complete"}
  /\ \E s, u \in Range(symbols) :
       /\ s < u
       /\ Get(prev_oi, s) = Some(0) /\ Truthy(Get(curr_oi, s))
       /\ s \in DOMAIN prev_prices /\ s \in DOMAIN curr_prices
       /\ u \in Flagged

\* min(n, 10)
Min10(n) == IF n < 10 THEN n ELSE 10

----------------------------------------------------------------------------
(* Properties of the scheduler loop, checked under Spec *)

\* C9: an exception anywhere in the try block is logged and followed by the
\* 10-second sleep, after which the loop starts a new iteration at universe
\* resolution: at every position main() has assigned, in the current
\* iteration, every name it has bound so far (nothing of the failed
\* iteration is read), and the sleep always ends in the next iteration.
C9_FreshCycleAfterFailure ==
  /\ [](fresh = AssignedAt(pc))
  /\ [](pc = "backoff" => log = "run error" /\ timer = 10 /\ ENABLED Backoff)
  /\ [][pc = "backoff" => pc' = "resolve" /\ timer' = 0]_vars

\* the second iteration, begun after the first one failed, is about to
\* save its own start snapshot
C9_Witness == cycle = 2 /\ pc = "persist" /\ log = "run error"

\* C10: when the funding fetch fails (non-200 status or exception) in an
\* iteration that has a symbol with a price and an open interest,
\* funding_rates is the empty dict and the iteration can go on to save its
\* start snapshot instead of entering the error backoff.
C10_FundingFailureIsNeutral ==
  /\ pc = "persist"
  /\ funding_outcome \in {"status", "exception"}
  /\ StartSymbols # <<>>
  => /\ funding_rates = Some(EmptyDict)
     /\ ENABLED (PersistStart /\ pc' = "wait")

\* the universe resolution of the current iteration failed
UniverseFailed == symbols_outcome \in {"status", "exception"}

\* C11: when universe resolution fails (non-200 status, or an exception of
\* the request or of the parsing), get_all_symbols returns the empty list
\* and the iteration goes on with zero symbols: no open-interest task is
\* created, no record is produced, session.post is not called, the only
\* step that can enter the error backoff is a failed write of the history
\* log (the funding fetch returning None included), the iteration reaches
\* its last line, and the next one calls get_all_symbols again (a call
\* that returns unless the exchange never answers it).
C11_UniverseFailureIsEmptyCycle ==
  /\ [](UniverseFailed =>
          /\ symbols = <<>> /\ tasks = <<>> /\ InFlight = {}
          /\ embeds = <<>> /\ postCalls = 0 /\ pc # "posting")
  /\ [](UniverseFailed /\ pc = "persist" => ENABLED (PersistStart /\ pc' = "wait"))
  /\ [](UniverseFailed /\ pc = "complete" => ENABLED LogComplete)
  /\ [](pc = "resolve" /\ cycle < MaxCycles /\ ~blocked => ENABLED ResolveUniverse)
  /\ [][UniverseFailed /\ pc' = "backoff" => pc = "persist"]_vars
  /\ [][UniverseFailed /\ pc = "complete" => pc' = "resolve"]_vars

\* an iteration whose exchangeInfo request answered a non-200 status, and
\* whose funding request did too, is at its last line with nothing sent
C11_Witness ==
  /\ pc = "complete"
  /\ symbols_outcome = "status"
  /\ funding_rates = None
  /\ postCalls = 0

\* save_to_csv is called and returns in this step
Saves == pc = "persist" /\ pc' = "wait"

\* C12: starting from a missing history log, the file has a header exactly
\* when a save_to_csv call has created it; the header is written by that
\* first call and never again; every call appends one row per record of
\* the snapshot it is given (N rows, then 2N for a second one of N) after the
\* rows already there, which are never rewritten or removed; nothing but
\* save_to_csv changes the file.
C12_HeaderOnceRowsAppended ==
  /\ [](fileExists <=> fileColumns # <<>>)
  /\ [](~fileExists => fileRows = <<>>)
  /\ [](\A j, k \in 1..Len(fileRows) :
          j < k => fileRows[j].timestamp <= fileRows[k].timestamp)
  /\ [][fileExists => fileExists' /\ fileColumns' = fileColumns]_vars
  /\ [][/\ Len(fileRows') >= Len(fileRows)
        /\ SubSeq(fileRows', 1, Len(fileRows)) = fileRows]_vars
  /\ [][Saves => /\ fileExists'
                 /\ Len(fileRows') = Len(fileRows) + Len(StartSymbols)
                 /\ \A k \in 1..Len(StartSymbols) :
                      /\ fileRows'[Len(fileRows) + k].symbol = StartSymbols[k]
                      /\ fileRows'[Len(fileRows) + k].timestamp = cycle]_vars
  /\ [][~Saves => UNCHANGED fileVars]_vars

\* two snapshots of N = 2 valid symbols have been saved: the file has its
\* header and 2N rows, those of the first call before those of the second
C12_Witness ==
  /\ fileExists
  /\ Len(fileColumns) = 6
  /\ Len(fileRows) = 4
  /\ <<fileRows[1].timestamp, fileRows[2].timestamp>> = <<1, 1>>
  /\ <<fileRows[3].timestamp, fileRows[4].timestamp>> = <<2, 2>>

----------------------------------------------------------------------------
(* Properties of the start snapshot, checked under SpecPersist *)

\* the symbols of the rows the current iteration has appended
SavedSymbols ==
  {fileRows[k].symbol : k \in {j \in 1..Len(fileRows) : fileRows[j].timestamp = cycle}}

\* the universe symbols with a price and an open interest that is not None
PricedWithOI ==
  {s \in Range(symbols) : s \in DOMAIN prev_prices /\ Get(prev_oi, s) # None}

\* C13: once the start snapshot is saved, the rows appended for it are one
\* row, with the snapshot's timestamp and phase, for each universe symbol
\* that has a price and an open interest that is not None (its fetch did
\* not fail), and none for any other symbol.
C13_RowPerPricedSymbol ==
  pc = "wait" =>
    /\ SavedSymbols = PricedWithOI
    /\ \A j, k \in 1..Len(fileRows) :
         fileRows[j].timestamp = cycle /\ fileRows[k].timestamp = cycle /\ j # k
           => fileRows[j].symbol # fileRows[k].symbol
    /\ \A k \in 1..Len(fileRows) :
         fileRows[k].timestamp = cycle => fileRows[k].phase = "start"

----------------------------------------------------------------------------
(* Properties of the history log over the cycle, checked under Spec *)

\* the history log has a row of the given phase for the symbol
HasRow(s, phase) ==
  \E k \in 1..Len(fileRows) : fileRows[k].symbol = s /\ fileRows[k].phase = phase

\* the symbol has a price and an open interest in the end snapshot
HasEnd(s) == s \in DOMAIN curr_prices /\ Truthy(Get(curr_oi, s))

\* C14: in an iteration that has reached detection, the history log holds
\* the rows of the start snapshot, tagged `start`, and the rows of the end
\* snapshot, tagged `end`, one for each symbol with a price and an open
\* interest in that snapshot.
C14_BothSnapshotsPersisted ==
  pc \in {"detect", "posting", "complete"} =>
    /\ \A s \in Range(StartSymbols) : HasRow(s, "start")
    /\ \A s \in Range(symbols) : HasEnd(s) => HasRow(s, "end")

----------------------------------------------------------------------------
(* The zero start price, checked under SpecDetect *)

\* C15: when the detection loop is at a symbol whose start-snapshot price is
\* exactly 0, the pass over it skips the symbol: the loop goes on to the
\* next symbol (and so to dispatch) and does not enter the error backoff.
C15_ZeroStartPriceSkipped ==
  \A s \in Range(symbols) :
    At(s) /\ s \in DOMAIN prev_prices /\ prev_prices[s] = 0
      => /\ ENABLED (DetectStep /\ pc' = "detect" /\ idx' = idx + 1)
         /\ ~ENABLED (DetectStep /\ pc' = "backoff")

----------------------------------------------------------------------------
(* Progress of the scheduler, checked under SpecLive *)

\* C16: no request that is never answered blocks the scheduler: again and
\* again main() is at the top of its loop, having completed an iteration,
\* or in the error backoff, and is not inside a request.
C16_NoRequestBlocksForever == []<>(pc \in {"resolve", "backoff"} /\ ~blocked)

----------------------------------------------------------------------------
(* Failure of the notification call, checked under Spec *)

----------------------------------------------------------------------------
(* The suspension points, checked under Spec *)

\* C18: while main() is in asyncio.sleep(CHECK_INTERVAL) or in the
\* asyncio.sleep(10) of the except branch, no fetch_open_interest task
\* waits for the semaphore or has a request in flight, every permit of the
\* semaphore is free, no session.post and no requests.get is in progress,
\* and the sleep is the only thing main() is in.
C18_NothingRunsDuringSleeps ==
  pc \in {"wait", "backoff"} =>
    /\ \A k \in DOMAIN tasks : tasks[k] = "done"
    /\ InFlight = {}
    /\ semaphore = SemaphoreValue
    /\ postAnswer = "none"
    /\ ~blocked
    /\ timer = IF pc = "wait" THEN CHECK_INTERVAL ELSE ERROR_SLEEP

\* main() is in the interval sleep after a batch of two fetches, one of
\* which failed
C18_Witness ==
  /\ pc = "wait"
  /\ timer = 45
  /\ \E s, u \in DOMAIN prev_oi : prev_oi[s] = None /\ prev_oi[u] # None

----------------------------------------------------------------------------
(* The header of the history log, checked under Spec *)

\* C19: whenever the history log exists, its header names the six columns
\* symbol, price, oi, funding, phase, timestamp, whatever the first
\* snapshot saved into the missing file held, and every row has a value
\* for exactly these columns.
C19_HeaderNamesSixColumns ==
  fileExists =>
    /\ fileColumns = <<"symbol", "price", "oi", "funding", "phase", "timestamp">>
    /\ \A k \in 1..Len(fileRows) : DOMAIN fileRows[k] = Range(fileColumns)

====
